---- MODULE Spec2Model ----
(***************************************************************************)
(* State-machine model of the two orchestrators of crypto-fortress-bot:    *)
(*   FortressBot  (src/fortress_main.py)       one coroutine, one tick     *)
(*                                             = mode, manage, scan        *)
(*   ScalpingBot  (src/scalping_bot_v2/main.py) three coroutines run by    *)
(*                                             asyncio.gather              *)
(* Both work on the ledger self.market.positions.  MarketData, config and  *)
(* PatternDetector are not part of the sources; what the model needs of    *)
(* them is taken from spec.md sections 3, 4 and 6.                         *)
(*                                                                         *)
(* Prices are integers (1 = 0.0001 of the quote unit); every ratio of the  *)
(* source is compared by cross-multiplication, so no rounding is involved. *)
(***************************************************************************)
EXTENDS Integers, Sequences, FiniteSets, TLC

VARIABLES
    bot,          \* which program runs: "fortress" or "scalping"
    positions,    \* self.market.positions: symbol -> position record
    balance,      \* self.market.balance
    now,          \* wall clock, in steps (datetime.now())
    mode,         \* FortressBot.mode
    pc,           \* FortressBot: where the main loop stands
    todo,         \* supervisor: symbols of the snapshot still to inspect
    scan_todo,    \* scanner: candidates still to evaluate
    slots,        \* FortressBot: the local `slots` of scan_tokyo/scan_global
    running,      \* self.running
    fast_pc,      \* ScalpingBot.fast_loop
    scan_pc,      \* ScalpingBot.scan_loop
    rep_pc,       \* ScalpingBot.reporting_loop
    rep_todo,     \* reporting_loop: keys its dict iterator has not yielded yet
    rep_cur,      \* reporting_loop: the item whose price it is awaiting
    rep_len,      \* reporting_loop: size of the dict when its iterator started
    rep_left,     \* reporting_loop: items its iterator may still yield
    rep_pnl,      \* reporting_loop: unrealized_pnl accumulated by this pass
    rep_hit,      \* reporting_loop: current_pnl_pct >= DAILY_PROFIT_TARGET_PCT
    ev            \* the external calls made by the latest step (history)

vars == <<bot, positions, balance, now, mode, pc, todo, scan_todo,
          slots, running, fast_pc, scan_pc, rep_pc, rep_todo, rep_cur, rep_len,
          rep_left, rep_pnl, rep_hit, ev>>

fortressVars == <<mode, pc, slots>>
scalpingVars == <<running, fast_pc, scan_pc, rep_pc, rep_todo, rep_cur, rep_len,
                  rep_left, rep_pnl, rep_hit>>

-----------------------------------------------------------------------------
(* Bounds of the model *)

\* the clock stops advancing at MaxTime steps
MaxTime == 2
\* minutes per clock step in FortressBot, seconds per clock step in ScalpingBot
StepMinutes == 31
StepSeconds == 650

\* the candidates returned by get_top_symbols (FortressBot) and by
\* get_top_vol_symbols (ScalpingBot), by rank
Symbols == {1, 2, 3}
SSymbols == {1, 2}
Sides == {"LONG", "SHORT"}
\* close of the last candle of every candidate: the entry price of a signal
EntryPrice == 10000
\* values of get_current_price seen by FortressBot (0: the feed failed)
FPrices == {0, 9600, 9800, 9900, 10000, 10100, 10200, 10400}
\* values of get_current_price seen by ScalpingBot
SPrices == {0, 9900, 9950, 10000, 10040, 10050, 10100}
\* the levels of self.market.balance the model tells apart, per program; the
\* balance saturates at the lowest and the highest level
FBalances == {9900, 10000}
SBalances == {10000, 10100}
\* UTC hours sampled at both ends of both windows
Hours == {0, 8, 9, 23}

-----------------------------------------------------------------------------
(* config (config.py is not among the sources) *)

\* FortressBot
MAX_OPEN_POSITIONS == 2
RISK_PER_TRADE_PCT == 3
\* ScalpingBot (the config module of scalping_bot_v2)
S_MAX_OPEN_POSITIONS == 1
LEVERAGE == 10
STOP_LOSS_ROI == -4
TAKE_PROFIT_ROI == 8
USE_TRAILING == TRUE
TRAILING_ACTIVATION_ROI == 4
TRAILING_DISTANCE_ROI == 2
MAX_HOLD_SECONDS == 1200
CAPITAL_PER_TRADE_PCT == 10
DAILY_PROFIT_TARGET_PCT == 1

\* self.market.balance when the program starts (daily_start_balance,
\* start_balance)
StartBalance == 10000

-----------------------------------------------------------------------------
(* Helpers *)

MinOf(S) == CHOOSE x \in S : \A y \in S : x <= y
Abs(x) == IF x < 0 THEN -x ELSE x
Min2(a, b) == IF a <= b THEN a ELSE b

\* kind: "tick", "manage", "open", "error", "zero_stop" or "none"; hour: the UTC hour a tick
\* read; calls: the close_position calls of a supervisor step, by reason;
\* size: the quote size passed to open_position; failed: the call raised
NoEv == [kind |-> "none", sym |-> 0, hour |-> 0, calls |-> <<>>, size |-> 0,
         failed |-> FALSE]

NoCur == [sym |-> 0, side |-> "none", amount |-> 0]

-----------------------------------------------------------------------------
(* ScalperStrategy.analyze: the indicator arithmetic is out of scope; `touch`
   says which band/RSI condition the candles satisfy, `extreme` whether the
   RSI is beyond 25/75. *)

NoSignal == [direction |-> "none", score |-> 0, entry_price |-> 0, tp |-> 0, sl |-> 0,
             strategy |-> "none"]

ScalperAnalyze(current_price, touch, extreme) ==
    IF touch = "LONG"
    THEN [direction |-> "LONG", score |-> 85 + (IF extreme THEN 10 ELSE 0),
          entry_price |-> current_price,
          tp |-> (current_price * 1006) \div 1000,
          sl |-> (current_price * 996) \div 1000,
          strategy |-> "TOKYO_SCALP"]
    ELSE IF touch = "SHORT"
    THEN [direction |-> "SHORT", score |-> 85 + (IF extreme THEN 10 ELSE 0),
          entry_price |-> current_price,
          tp |-> (current_price * 994) \div 1000,
          sl |-> (current_price * 1004) \div 1000,
          strategy |-> "TOKYO_SCALP"]
    ELSE NoSignal

-----------------------------------------------------------------------------
(* MarketData (spec.md 3 and 6): the ledger and the balance *)

\* quantity bought for a quote size: FortressBot's MarketData rounds it to the
\* nearest tenth of a unit, ScalpingBot's cuts it to lots of a hundredth
AmountOf(size_usdt, price) == (size_usdt * 10 + price \div 2) \div price
LotsOf(amount_usdt, price) == (amount_usdt * 100) \div price

\* the record open_position stores; `by` (the scan path that opened it),
\* orig_amount and harvests are history fields the program does not keep
NewPosition(direction, qty, sl, tp, t, by) ==
    [side |-> direction, entry_price |-> EntryPrice, sl |-> sl, tp |-> tp,
     amount |-> qty, entry_time |-> t,
     strategy |-> "UNKNOWN", partial_taken |-> FALSE, be_locked |-> FALSE,
     max_roi |-> 0, by |-> by, orig_amount |-> qty, harvests |-> 0]

OpenPosition(ledger, sym, p) ==
    [x \in DOMAIN ledger \cup {sym} |-> IF x = sym THEN p ELSE ledger[x]]

RemovePosition(ledger, sym) == [x \in DOMAIN ledger \ {sym} |-> ledger[x]]

PutPosition(ledger, sym, p) == [x \in DOMAIN ledger |-> IF x = sym THEN p ELSE ledger[x]]

OpenCount(ledger) == Cardinality(DOMAIN ledger)

\* (price - entry) for a LONG, (entry - price) for a SHORT
PriceMove(pos, price) ==
    IF pos.side = "LONG" THEN price - pos.entry_price ELSE pos.entry_price - price

Balances == IF bot = "fortress" THEN FBalances ELSE SBalances

\* a close realizes the gain or the loss: the balance moves one level
BalanceAfterClose(bal, pos, price) ==
    IF PriceMove(pos, price) > 0
    THEN (IF \E b \in Balances : b > bal
          THEN MinOf({b \in Balances : b > bal}) ELSE bal)
    ELSE IF PriceMove(pos, price) < 0
    THEN (IF \E b \in Balances : b < bal
          THEN -MinOf({-b : b \in {c \in Balances : c < bal}}) ELSE bal)
    ELSE bal

-----------------------------------------------------------------------------
(* FortressBot.manage_positions: the rules applied to one position *)

Strat(pos) == IF pos.strategy = "UNKNOWN" THEN "GLOBAL_TREND" ELSE pos.strategy

\* the alternative design: dispatch on the mode of the current tick
BranchByMode(pos, m) == IF m = "TOKYO_SCALPER" THEN "scalp" ELSE "trend"

Branch(pos, m) == IF Strat(pos) = "TOKYO_SCALP" THEN "scalp" ELSE "trend"

\* duration in minutes > 60
ScalpStale(pos, t) == (t - pos.entry_time) * StepMinutes > 60

Outcome(calls, full, pos) == [calls |-> calls, full |-> full, pos |-> pos]

ScalpManage(pos, price, t) ==
    IF ScalpStale(pos, t)
    THEN Outcome(<<"TIME LIMIT (Scalp Stale)">>, TRUE, pos)
    ELSE IF PriceMove(pos, price) * 1000 >= 6 * pos.entry_price
    THEN Outcome(<<"SCALP TP (+0.6%)">>, TRUE, pos)
    ELSE IF PriceMove(pos, price) * 1000 <= -4 * pos.entry_price
    THEN Outcome(<<"SCALP SL (-0.4%)">>, TRUE, pos)
    ELSE Outcome(<<>>, FALSE, pos)

StopHit(pos, price) ==
    \/ pos.side = "LONG" /\ price <= pos.sl
    \/ pos.side = "SHORT" /\ price >= pos.sl

TargetHit(pos, price) ==
    \/ pos.side = "LONG" /\ price >= pos.tp
    \/ pos.side = "SHORT" /\ price <= pos.tp

\* the harvest condition without its partial_taken guard
HarvestDueAlways(pos, price) ==
    PriceMove(pos, price) * 1000 >= 12 * pos.entry_price

HarvestDue(pos, price) ==
    ~pos.partial_taken /\ PriceMove(pos, price) * 1000 >= 12 * pos.entry_price

Harvest(pos, price) ==
    IF HarvestDue(pos, price)
    THEN LET qty_close == pos.amount \div 2
         IN  [calls |-> <<"HARVESTER (50%)">>,
              pos |-> [pos EXCEPT !.amount = pos.amount - qty_close,
                                  !.partial_taken = TRUE,
                                  !.be_locked = TRUE,
                                  !.sl = pos.entry_price,
                                  !.harvests = pos.harvests + 1]]
    ELSE [calls |-> <<>>, pos |-> pos]

\* the trailing rule without the comparison with the current stop
TrailAlways(pos, price) ==
    IF pos.be_locked
    THEN LET trail_dist == price \div 100
         IN  [pos EXCEPT !.sl = IF pos.side = "LONG" THEN price - trail_dist
                                 ELSE price + trail_dist]
    ELSE pos

Trail(pos, price) ==
    IF pos.be_locked
    THEN LET trail_dist == price \div 100
             new_sl == IF pos.side = "LONG" THEN price - trail_dist
                       ELSE price + trail_dist
         IN  IF pos.side = "LONG"
             THEN (IF new_sl > pos.sl THEN [pos EXCEPT !.sl = new_sl] ELSE pos)
             ELSE (IF new_sl < pos.sl THEN [pos EXCEPT !.sl = new_sl] ELSE pos)
    ELSE pos

\* the trend branch with the `continue` after TAKE PROFIT left out
TrendManageFallThrough(pos, price) ==
    IF StopHit(pos, price)
    THEN Outcome(<<"STOP LOSS">>, TRUE, pos)
    ELSE LET h == Harvest(pos, price)
         IN  IF TargetHit(pos, price)
             THEN Outcome(<<"TAKE PROFIT (Full Base)">> \o h.calls, TRUE,
                          Trail(h.pos, price))
             ELSE Outcome(h.calls, FALSE, Trail(h.pos, price))

TrendManage(pos, price) ==
    IF StopHit(pos, price)
    THEN Outcome(<<"STOP LOSS">>, TRUE, pos)
    ELSE IF TargetHit(pos, price)
    THEN Outcome(<<"TAKE PROFIT (Full Base)">>, TRUE, pos)
    ELSE LET h == Harvest(pos, price)
         IN  Outcome(h.calls, FALSE, Trail(h.pos, price))

ManageOne(pos, price, t, m) ==
    IF Branch(pos, m) = "scalp" THEN ScalpManage(pos, price, t)
    ELSE TrendManage(pos, price)

-----------------------------------------------------------------------------
(* FortressBot: sizing *)

\* min(size_usdt, self.market.balance * 0.2)
TOKYO_MAX_EXPOSURE_PCT == 20

\* scan_tokyo: risk 0.5% of the balance over the stop distance, capped at 20%
TokyoSize(bal, signal) ==
    LET raw == (bal * 5 * signal.entry_price)
                  \div (1000 * Abs(signal.entry_price - signal.sl))
    IN  Min2(raw, (bal * TOKYO_MAX_EXPOSURE_PCT) \div 100)

\* scan_global: risk RISK_PER_TRADE_PCT % of the balance over the stop distance
GlobalSize(bal, entry_price, sl) ==
    (bal * RISK_PER_TRADE_PCT * entry_price) \div (100 * Abs(entry_price - sl))

\* stop distances PatternDetector.calculate_dynamic_levels may return
GlobalStopDists == {0, 100}

DynamicLevels(direction, dist) ==
    IF direction = "LONG"
    THEN [sl |-> EntryPrice - dist, tp |-> EntryPrice + 400]
    ELSE [sl |-> EntryPrice + dist, tp |-> EntryPrice - 400]

-----------------------------------------------------------------------------
(* FortressBot.tick *)

\* the window test with the hour 9 on the scalper side
ModeOfInclusive(h) == IF 0 <= h /\ h <= 9 THEN "TOKYO_SCALPER" ELSE "GLOBAL_TREND"

ModeOf(h) == IF 0 <= h /\ h < 9 THEN "TOKYO_SCALPER" ELSE "GLOBAL_TREND"

\* step 3 of tick: the slot gate and the choice of the scanner
StartScan(ledger, m) ==
    LET s == MAX_OPEN_POSITIONS - OpenCount(ledger)
    IN  IF s > 0
        THEN [pc |-> IF m = "TOKYO_SCALPER" THEN "scan_tokyo" ELSE "scan_global",
              slots |-> s, scan_todo |-> Symbols]
        ELSE [pc |-> "idle", slots |-> 0, scan_todo |-> {}]

\* back in start(): the tick returned, or raised into the except clause
FIdle == pc' = "idle" /\ todo' = {} /\ scan_todo' = {} /\ slots' = 0

FTick ==
    /\ bot = "fortress" /\ pc = "idle"
    /\ \E h \in Hours, d \in {0, 1} :
         /\ now' = Min2(now + d, MaxTime)
         /\ mode' = ModeOf(h)
         /\ ev' = [NoEv EXCEPT !.kind = "tick", !.hour = h]
         /\ IF DOMAIN positions = {}
            THEN LET n == StartScan(positions, ModeOf(h))
                 IN  pc' = n.pc /\ slots' = n.slots /\ scan_todo' = n.scan_todo
                     /\ todo' = {}
            ELSE pc' = "manage" /\ todo' = DOMAIN positions /\ slots' = 0
                 /\ scan_todo' = {}
    /\ UNCHANGED <<bot, positions, balance, scalpingVars>>

\* one iteration of the for loop of manage_positions on symbol s:
\* res is what the data and execution calls do
\* the iteration with the record updated before close_position is awaited
FManageResultLate(s, price, res) ==
    LET pos == positions[s]
        r == ManageOne(pos, price, now, mode)
        e == [NoEv EXCEPT !.kind = "manage", !.sym = s]
    IN  IF res = "price_raises"
        THEN [valid |-> price = 0, abort |-> TRUE, positions |-> positions,
              balance |-> balance, ev |-> [e EXCEPT !.failed = TRUE]]
        ELSE IF price = 0
        THEN [valid |-> res = "ok", abort |-> FALSE, positions |-> positions,
              balance |-> balance, ev |-> e]
        ELSE IF r.calls = <<>>
        THEN [valid |-> res = "ok", abort |-> FALSE,
              positions |-> PutPosition(positions, s, r.pos),
              balance |-> balance, ev |-> e]
        ELSE IF res = "close_fails"
        THEN [valid |-> TRUE, abort |-> TRUE,
              positions |-> PutPosition(positions, s, r.pos),
              balance |-> balance,
              ev |-> [e EXCEPT !.calls = r.calls, !.failed = TRUE]]
        ELSE [valid |-> TRUE, abort |-> FALSE,
              positions |-> IF r.full THEN RemovePosition(positions, s)
                            ELSE PutPosition(positions, s, r.pos),
              balance |-> BalanceAfterClose(balance, pos, price),
              ev |-> [e EXCEPT !.calls = r.calls]]

FManageResult(s, price, res) ==
    LET pos == positions[s]
        r == ManageOne(pos, price, now, mode)
        e == [NoEv EXCEPT !.kind = "manage", !.sym = s]
    IN  IF res = "price_raises"
        THEN [valid |-> price = 0, abort |-> TRUE, positions |-> positions,
              balance |-> balance, ev |-> [e EXCEPT !.failed = TRUE]]
        ELSE IF price = 0
        THEN [valid |-> res = "ok", abort |-> FALSE, positions |-> positions,
              balance |-> balance, ev |-> e]
        ELSE IF r.calls = <<>>
        THEN [valid |-> res = "ok", abort |-> FALSE,
              positions |-> PutPosition(positions, s, r.pos),
              balance |-> balance, ev |-> e]
        ELSE IF res = "close_fails"
        THEN [valid |-> TRUE, abort |-> TRUE,
              positions |-> positions,
              balance |-> balance,
              ev |-> [e EXCEPT !.calls = r.calls, !.failed = TRUE]]
        ELSE [valid |-> TRUE, abort |-> FALSE,
              positions |-> IF r.full THEN RemovePosition(positions, s)
                            ELSE PutPosition(positions, s, r.pos),
              balance |-> BalanceAfterClose(balance, pos, price),
              ev |-> [e EXCEPT !.calls = r.calls]]

FManageStep ==
    /\ bot = "fortress" /\ pc = "manage" /\ todo # {}
    /\ LET s == MinOf(todo)
           rest == todo \ {s}
       IN  \E price \in FPrices, res \in {"ok", "close_fails", "price_raises"} :
             LET o == FManageResult(s, price, res)
             IN  /\ o.valid
                 /\ positions' = o.positions
                 /\ balance' = o.balance
                 /\ ev' = o.ev
                 /\ IF o.abort THEN FIdle
                    ELSE IF rest = {}
                    THEN LET n == StartScan(o.positions, mode)
                         IN  pc' = n.pc /\ slots' = n.slots
                             /\ scan_todo' = n.scan_todo /\ todo' = {}
                    ELSE pc' = "manage" /\ todo' = rest /\ slots' = 0
                         /\ scan_todo' = {}
    /\ UNCHANGED <<bot, now, mode, scalpingVars>>

\* a membership test that never finds the symbol
InLedgerNever(sym, ledger) == FALSE

\* if sym in self.market.positions
InLedger(sym, ledger) == sym \in DOMAIN ledger

\* a data call or the analysis of candidate sym raised
ErrorEv(sym) == [NoEv EXCEPT !.kind = "error", !.sym = sym, !.failed = TRUE]

\* the signal of candidate sym has a stop distance of zero
ZeroStopEv(sym) == [NoEv EXCEPT !.kind = "zero_stop", !.sym = sym]

OpenEv(sym, size_usdt, failed) ==
    [NoEv EXCEPT !.kind = "open", !.sym = sym, !.size = size_usdt, !.failed = failed]

\* one iteration of the for loop of scan_tokyo on candidate sym
FTokyoResult(sym, out, touch, extreme) ==
    LET signal == ScalperAnalyze(EntryPrice, touch, extreme)
        size_usdt == TokyoSize(balance, signal)
        skip == [valid |-> TRUE, abort |-> FALSE, opened |-> FALSE,
                 positions |-> positions, ev |-> NoEv]
    IN  IF InLedger(sym, positions)
        THEN [skip EXCEPT !.valid = (out = "empty")]
        ELSE IF out = "raise"
        THEN [skip EXCEPT !.abort = TRUE, !.ev = ErrorEv(sym)]
        ELSE IF out = "empty" \/ signal = NoSignal
        THEN [skip EXCEPT !.valid = (out = "empty" \/ out = "signal")]
        ELSE IF Abs(signal.entry_price - signal.sl) = 0
        THEN [skip EXCEPT !.valid = (out = "signal"), !.ev = ZeroStopEv(sym)]
        ELSE IF out = "open_fails"
        THEN [skip EXCEPT !.abort = TRUE,
                          !.ev = OpenEv(sym, size_usdt, TRUE)]
        ELSE [valid |-> out = "signal", abort |-> FALSE, opened |-> TRUE,
              positions |-> OpenPosition(positions, sym,
                               NewPosition(signal.direction,
                                           AmountOf(size_usdt, EntryPrice),
                                           signal.sl, signal.tp, now,
                                           "scan_tokyo")),
              ev |-> OpenEv(sym, size_usdt, FALSE)]

\* one iteration of the for loop of scan_global on candidate sym
FGlobalResult(sym, out, direction, dist) ==
    LET lv == DynamicLevels(direction, dist)
        skip == [valid |-> TRUE, abort |-> FALSE, opened |-> FALSE,
                 positions |-> positions, ev |-> NoEv]
    IN  IF InLedger(sym, positions)
        THEN [skip EXCEPT !.valid = (out = "empty")]
        ELSE IF out = "raise"
        THEN [skip EXCEPT !.abort = TRUE, !.ev = ErrorEv(sym)]
        ELSE IF out \in {"empty", "nosignal", "lowscore", "nolevels"}
        THEN skip
        ELSE IF dist = 0
        THEN [skip EXCEPT !.valid = (out = "signal"), !.abort = TRUE,
                          !.ev = ZeroStopEv(sym)]
        ELSE LET size_usdt == GlobalSize(balance, EntryPrice, lv.sl)
             IN  IF out = "open_fails"
                 THEN [skip EXCEPT !.abort = TRUE,
                                   !.ev = OpenEv(sym, size_usdt, TRUE)]
                 ELSE [valid |-> out = "signal", abort |-> FALSE, opened |-> TRUE,
                       positions |-> OpenPosition(positions, sym,
                          [NewPosition(direction, AmountOf(size_usdt, EntryPrice),
                                       lv.sl, lv.tp, now, "scan_global")
                             EXCEPT !.strategy = "GLOBAL_TREND"]),
                       ev |-> OpenEv(sym, size_usdt, FALSE)]

\* the end of one iteration: continue, break at slots == 0, or leave the loop
FScanTail(o, rest) ==
    /\ o.valid
    /\ positions' = o.positions
    /\ ev' = o.ev
    /\ LET left == IF o.opened THEN slots - 1 ELSE slots
       IN  IF o.abort \/ left = 0 \/ rest = {}
           THEN FIdle
           ELSE pc' = pc /\ slots' = left /\ scan_todo' = rest /\ todo' = {}
    /\ UNCHANGED <<bot, balance, now, mode, scalpingVars>>

FScanTokyo ==
    /\ bot = "fortress" /\ pc = "scan_tokyo" /\ scan_todo # {}
    /\ LET sym == MinOf(scan_todo)
       IN  \E out \in {"raise", "empty", "signal", "open_fails"},
              touch \in Sides \cup {"none"}, extreme \in BOOLEAN :
             FScanTail(FTokyoResult(sym, out, touch, extreme), scan_todo \ {sym})

FScanGlobal ==
    /\ bot = "fortress" /\ pc = "scan_global" /\ scan_todo # {}
    /\ LET sym == MinOf(scan_todo)
       IN  \E out \in {"raise", "empty", "nosignal", "lowscore", "nolevels",
                      "signal", "open_fails"},
              direction \in Sides, dist \in GlobalStopDists :
             FScanTail(FGlobalResult(sym, out, direction, dist), scan_todo \ {sym})


-----------------------------------------------------------------------------
(* ScalpingBot.fast_loop: the rules applied to one position *)

\* roi in percent of margin
Roi(pos, price) == (PriceMove(pos, price) * LEVERAGE * 100) \div pos.entry_price

DurationSec(pos, t) == (t - pos.entry_time) * StepSeconds

\* the rules with the stagnation exit tested before the hard stop and target
FastRulesStagnationFirst(pos, price, t) ==
    LET roi == Roi(pos, price)
        p1 == IF roi > pos.max_roi THEN [pos EXCEPT !.max_roi = roi] ELSE pos
    IN  IF DurationSec(pos, t) > 600 /\ roi < 2
        THEN Outcome(<<"STAGNATION">>, TRUE, p1)
        ELSE IF roi <= STOP_LOSS_ROI
        THEN Outcome(<<"STOP LOSS">>, TRUE, p1)
        ELSE IF roi >= TAKE_PROFIT_ROI
        THEN Outcome(<<"TAKE PROFIT">>, TRUE, p1)
        ELSE IF USE_TRAILING /\ p1.max_roi >= TRAILING_ACTIVATION_ROI
                /\ roi < p1.max_roi - TRAILING_DISTANCE_ROI
        THEN Outcome(<<"TRAILING STOP">>, TRUE, p1)
        ELSE IF DurationSec(pos, t) > MAX_HOLD_SECONDS
        THEN Outcome(<<"MAX TIME LIMIT">>, TRUE, p1)
        ELSE Outcome(<<>>, FALSE, p1)

\* the rules with max_roi set to the roi of the tick, higher or not
FastRulesOverwrite(pos, price, t) ==
    LET roi == Roi(pos, price)
        p1 == [pos EXCEPT !.max_roi = roi]
    IN  IF roi <= STOP_LOSS_ROI
        THEN Outcome(<<"STOP LOSS">>, TRUE, p1)
        ELSE IF roi >= TAKE_PROFIT_ROI
        THEN Outcome(<<"TAKE PROFIT">>, TRUE, p1)
        ELSE IF USE_TRAILING /\ p1.max_roi >= TRAILING_ACTIVATION_ROI
                /\ roi < p1.max_roi - TRAILING_DISTANCE_ROI
        THEN Outcome(<<"TRAILING STOP">>, TRUE, p1)
        ELSE IF DurationSec(pos, t) > 600 /\ roi < 2
        THEN Outcome(<<"STAGNATION">>, TRUE, p1)
        ELSE IF DurationSec(pos, t) > MAX_HOLD_SECONDS
        THEN Outcome(<<"MAX TIME LIMIT">>, TRUE, p1)
        ELSE Outcome(<<>>, FALSE, p1)

FastRules(pos, price, t) ==
    LET roi == Roi(pos, price)
        p1 == IF roi > pos.max_roi THEN [pos EXCEPT !.max_roi = roi] ELSE pos
    IN  IF roi <= STOP_LOSS_ROI
        THEN Outcome(<<"STOP LOSS">>, TRUE, p1)
        ELSE IF roi >= TAKE_PROFIT_ROI
        THEN Outcome(<<"TAKE PROFIT">>, TRUE, p1)
        ELSE IF USE_TRAILING /\ p1.max_roi >= TRAILING_ACTIVATION_ROI
                /\ roi < p1.max_roi - TRAILING_DISTANCE_ROI
        THEN Outcome(<<"TRAILING STOP">>, TRUE, p1)
        ELSE IF DurationSec(pos, t) > 600 /\ roi < 2
        THEN Outcome(<<"STAGNATION">>, TRUE, p1)
        ELSE IF DurationSec(pos, t) > MAX_HOLD_SECONDS
        THEN Outcome(<<"MAX TIME LIMIT">>, TRUE, p1)
        ELSE Outcome(<<>>, FALSE, p1)

-----------------------------------------------------------------------------
(* ScalpingBot: the three loops of asyncio.gather.  A step is the code between
   two awaits. *)

\* an exception leaves a loop: gather re-raises it in start(), asyncio.run
\* cancels the other two tasks, unless they have returned already
SCrash ==
    /\ fast_pc' = "crashed"
    /\ scan_pc' = IF scan_pc = "done" THEN "done" ELSE "cancelled"
    /\ rep_pc' = IF rep_pc = "done" THEN "done" ELSE "cancelled"
    /\ todo' = {} /\ scan_todo' = {} /\ rep_todo' = {} /\ rep_cur' = NoCur
    /\ rep_len' = 0 /\ rep_left' = 0 /\ rep_pnl' = 0 /\ rep_hit' = FALSE

\* while self.running: ... list(self.market.positions.items())
SFastBegin ==
    /\ bot = "scalping" /\ fast_pc = "idle"
    /\ IF ~running
       THEN fast_pc' = "done" /\ todo' = {} /\ now' = now
       ELSE /\ \E d \in {0, 1} : now' = Min2(now + d, MaxTime)
            /\ todo' = DOMAIN positions
            /\ fast_pc' = IF DOMAIN positions = {} THEN "idle" ELSE "run"
    /\ ev' = NoEv
    /\ UNCHANGED <<bot, positions, balance, fortressVars, scan_todo, running, scan_pc,
                   rep_pc, rep_todo, rep_cur, rep_len, rep_left, rep_pnl, rep_hit>>

\* one iteration of the for loop of fast_loop on symbol s
\* the iteration without the test of price == 0
SFastResultNoSkip(s, price, res) ==
    LET pos == positions[s]
        r == FastRules(pos, price, now)
    IN  IF res = "price_raises"
        THEN [valid |-> price = 0, abort |-> TRUE, positions |-> positions,
              balance |-> balance, ev |-> NoEv]
        ELSE IF r.calls = <<>>
        THEN [valid |-> res = "ok", abort |-> FALSE,
              positions |-> PutPosition(positions, s, r.pos),
              balance |-> balance, ev |-> NoEv]
        ELSE IF res = "close_fails"
        THEN [valid |-> TRUE, abort |-> TRUE,
              positions |-> PutPosition(positions, s, r.pos),
              balance |-> balance,
              ev |-> NoEv]
        ELSE [valid |-> TRUE, abort |-> FALSE,
              positions |-> IF r.full THEN RemovePosition(positions, s)
                            ELSE PutPosition(positions, s, r.pos),
              balance |-> BalanceAfterClose(balance, pos, price),
              ev |-> NoEv]

SFastResult(s, price, res) ==
    LET pos == positions[s]
        r == FastRules(pos, price, now)
    IN  IF res = "price_raises"
        THEN [valid |-> price = 0, abort |-> TRUE, positions |-> positions,
              balance |-> balance, ev |-> NoEv]
        ELSE IF price = 0
        THEN [valid |-> res = "ok", abort |-> FALSE, positions |-> positions,
              balance |-> balance, ev |-> NoEv]
        ELSE IF r.calls = <<>>
        THEN [valid |-> res = "ok", abort |-> FALSE,
              positions |-> PutPosition(positions, s, r.pos),
              balance |-> balance, ev |-> NoEv]
        ELSE IF res = "close_fails"
        THEN [valid |-> TRUE, abort |-> TRUE,
              positions |-> PutPosition(positions, s, r.pos),
              balance |-> balance,
              ev |-> NoEv]
        ELSE [valid |-> TRUE, abort |-> FALSE,
              positions |-> IF r.full THEN RemovePosition(positions, s)
                            ELSE PutPosition(positions, s, r.pos),
              balance |-> BalanceAfterClose(balance, pos, price),
              ev |-> NoEv]

SFastStep ==
    /\ bot = "scalping" /\ fast_pc = "run" /\ todo # {}
    /\ LET s == MinOf(todo)
           rest == todo \ {s}
       IN  \E price \in SPrices, res \in {"ok", "close_fails", "price_raises"} :
             LET o == SFastResult(s, price, res)
             IN  /\ o.valid
                 /\ positions' = o.positions
                 /\ balance' = o.balance
                 /\ ev' = o.ev
                 /\ IF o.abort
                    THEN SCrash
                    ELSE /\ todo' = rest
                         /\ fast_pc' = IF rest = {} THEN "idle" ELSE "run"
                         \* a removed entry leaves the reporting iterator's view
                         /\ rep_todo' = rep_todo \cap DOMAIN o.positions
                         /\ UNCHANGED <<scan_todo, scan_pc, rep_pc, rep_cur, rep_len,
                                        rep_left, rep_pnl, rep_hit>>
    /\ UNCHANGED <<bot, now, fortressVars, running>>

\* scan_loop_tick up to the end of the analysis: the slot check, the pending
\* list, the history of each pending symbol and its signal.  cands are the
\* candidates whose signal qualifies
\* the head of the scan loop without the test of self.running
SScanTickNoFlag ==
    /\ bot = "scalping" /\ scan_pc = "idle"
    /\ IF OpenCount(positions) >= S_MAX_OPEN_POSITIONS
       THEN scan_pc' = "idle" /\ scan_todo' = {}
       ELSE LET pending_symbols == {symbol \in SSymbols : ~InLedger(symbol, positions)}
            IN  \E cands \in SUBSET pending_symbols :
                  /\ scan_todo' = cands
                  /\ scan_pc' = IF cands = {} THEN "idle" ELSE "open"
    /\ ev' = NoEv
    /\ UNCHANGED <<bot, positions, balance, now, fortressVars, todo, running, fast_pc,
                   rep_pc, rep_todo, rep_cur, rep_len, rep_left, rep_pnl, rep_hit>>

SScanTick ==
    /\ bot = "scalping" /\ scan_pc = "idle"
    /\ IF ~running
       THEN scan_pc' = "done" /\ scan_todo' = {}
       ELSE IF OpenCount(positions) >= S_MAX_OPEN_POSITIONS
       THEN scan_pc' = "idle" /\ scan_todo' = {}
       ELSE LET pending_symbols == {symbol \in SSymbols : ~InLedger(symbol, positions)}
            IN  \E cands \in SUBSET pending_symbols :
                  /\ scan_todo' = cands
                  /\ scan_pc' = IF cands = {} THEN "idle" ELSE "open"
    /\ ev' = NoEv
    /\ UNCHANGED <<bot, positions, balance, now, fortressVars, todo, running, fast_pc,
                   rep_pc, rep_todo, rep_cur, rep_len, rep_left, rep_pnl, rep_hit>>

\* the levels with the stop and the target of a SHORT on the LONG side
ScalpLevelsOneSided(direction, price) ==
    LET move == (price * Abs(STOP_LOSS_ROI)) \div (LEVERAGE * 100)
        gain == (price * Abs(TAKE_PROFIT_ROI)) \div (LEVERAGE * 100)
    IN  [sl |-> price - move, tp |-> price + gain]

ScalpLevels(direction, price) ==
    LET move == (price * Abs(STOP_LOSS_ROI)) \div (LEVERAGE * 100)
        gain == (price * Abs(TAKE_PROFIT_ROI)) \div (LEVERAGE * 100)
    IN  IF direction = "LONG"
        THEN [sl |-> price - move, tp |-> price + gain]
        ELSE [sl |-> price + move, tp |-> price - gain]

TradeAmount(bal) ==
    LET amount == (bal * CAPITAL_PER_TRADE_PCT) \div 100
    IN  IF amount < 6 THEN 6 ELSE amount

\* one iteration of the execution loop of scan_loop_tick
SScanOpen ==
    /\ bot = "scalping" /\ scan_pc = "open" /\ scan_todo # {}
    /\ LET sym == MinOf(scan_todo)
           rest == scan_todo \ {sym}
           amount == TradeAmount(balance)
       IN  \E direction \in Sides, res \in {"ok", "open_fails"} :
             LET lv == ScalpLevels(direction, EntryPrice)
             IN  IF amount > balance
                 THEN /\ res = "ok"
                      /\ UNCHANGED <<positions, rep_todo>>
                      /\ ev' = NoEv
                      /\ scan_todo' = rest
                      /\ scan_pc' = IF rest = {} THEN "idle" ELSE "open"
                 ELSE IF res = "open_fails"
                 THEN /\ UNCHANGED <<positions, rep_todo>>
                      /\ ev' = NoEv
                      /\ scan_todo' = {}
                      /\ scan_pc' = "idle"
                 ELSE /\ positions' = OpenPosition(positions, sym,
                              NewPosition(direction, LotsOf(amount, EntryPrice),
                                          lv.sl, lv.tp, now, "scan_loop"))
                      \* a new entry lies behind the reporting iterator's cursor
                      /\ rep_todo' = IF rep_pc \in {"pass1", "pass2"}
                                     THEN rep_todo \cup {sym} ELSE rep_todo
                      /\ ev' = NoEv
                      /\ scan_todo' = rest
                      /\ scan_pc' = IF rest = {} THEN "idle" ELSE "open"
    /\ UNCHANGED <<bot, balance, now, fortressVars, todo, running, fast_pc, rep_pc,
                   rep_cur, rep_len, rep_left, rep_pnl, rep_hit>>

\* current_pnl_pct >= DAILY_PROFIT_TARGET_PCT, unrealized in thousandths
TargetReached(bal, unrealized_pnl) ==
    ((bal - StartBalance) * 1000 + unrealized_pnl) * 100
        >= DAILY_PROFIT_TARGET_PCT * StartBalance * 1000

CurOf(ledger, sym) == [sym |-> sym, side |-> ledger[sym].side,
                       amount |-> ledger[sym].amount]

\* the head of the while loop up to the first await of the pass
SRepBegin ==
    /\ bot = "scalping" /\ rep_pc = "idle"
    /\ IF ~running
       THEN rep_pc' = "done" /\ UNCHANGED <<running, rep_todo, rep_cur, rep_len,
                                            rep_left, rep_pnl, rep_hit>>
       ELSE IF DOMAIN positions = {}
       THEN /\ IF TargetReached(balance, 0)
               THEN running' = FALSE /\ rep_pc' = "done"
               ELSE running' = running /\ rep_pc' = "idle"
            /\ UNCHANGED <<rep_todo, rep_cur, rep_len, rep_left, rep_pnl, rep_hit>>
       ELSE LET first == MinOf(DOMAIN positions)
            IN  /\ rep_pc' = "pass1"
                /\ rep_cur' = CurOf(positions, first)
                /\ rep_todo' = DOMAIN positions \ {first}
                /\ rep_len' = OpenCount(positions)
                /\ rep_left' = OpenCount(positions) - 1
                /\ rep_pnl' = 0
                /\ UNCHANGED <<running, rep_hit>>
    /\ ev' = NoEv
    /\ UNCHANGED <<bot, positions, balance, now, fortressVars, todo, scan_todo,
                   fast_pc, scan_pc>>

\* values of get_current_price seen by the reporting loop
RPrices == {0, 10080}

\* the except clause of reporting_loop: sleep 60, back to the loop head
SRepError ==
    /\ rep_pc' = "idle" /\ rep_todo' = {} /\ rep_cur' = NoCur /\ rep_len' = 0
    /\ rep_left' = 0 /\ rep_pnl' = 0 /\ rep_hit' = FALSE

\* the price of the current item arrives; the dict iterator is advanced
SRepStep ==
    /\ bot = "scalping" /\ rep_pc \in {"pass1", "pass2"}
    /\ \E price \in RPrices, res \in {"ok", "price_raises"} :
         LET move == IF rep_cur.side = "LONG" THEN price - EntryPrice
                     ELSE EntryPrice - price
             unrealized_pnl == IF rep_pc = "pass1" /\ price > 0
                               THEN rep_pnl + move * rep_cur.amount ELSE rep_pnl
         IN  IF res = "price_raises"
             THEN /\ price = 0
                  /\ SRepError /\ running' = running
                  /\ ev' = NoEv
             ELSE IF OpenCount(positions) # rep_len
                     \/ (rep_todo # {} /\ rep_left = 0)
             THEN \* RuntimeError: dictionary changed size during iteration, or
                  \* dictionary keys changed during iteration
                  /\ SRepError /\ running' = running
                  /\ ev' = NoEv
             ELSE IF rep_todo # {}
             THEN /\ rep_cur' = CurOf(positions, MinOf(rep_todo))
                  /\ rep_todo' = rep_todo \ {MinOf(rep_todo)}
                  /\ rep_pnl' = unrealized_pnl
                  /\ rep_left' = rep_left - 1
                  /\ ev' = NoEv
                  /\ UNCHANGED <<rep_pc, rep_len, rep_hit, running>>
             ELSE IF rep_pc = "pass1"
             THEN \* total_equity, current_pnl_pct, then the status pass
                  /\ rep_hit' = TargetReached(balance, unrealized_pnl)
                  /\ rep_pnl' = 0
                  /\ ev' = NoEv
                  /\ running' = running
                  \* the ledger is not empty here: its size is rep_len
                  /\ rep_pc' = "pass2"
                  /\ rep_cur' = CurOf(positions, MinOf(DOMAIN positions))
                  /\ rep_todo' = DOMAIN positions \ {MinOf(DOMAIN positions)}
                  /\ rep_len' = OpenCount(positions)
                  /\ rep_left' = OpenCount(positions) - 1
             ELSE \* the status report is out; the daily target check
                  /\ ev' = NoEv
                  /\ running' = (running /\ ~rep_hit)
                  /\ rep_pc' = IF rep_hit THEN "done" ELSE "idle"
                  /\ rep_cur' = NoCur /\ rep_todo' = {} /\ rep_len' = 0
                  /\ rep_left' = 0 /\ rep_pnl' = 0 /\ rep_hit' = FALSE
    /\ UNCHANGED <<bot, positions, balance, now, fortressVars, todo, scan_todo,
                   fast_pc, scan_pc>>

-----------------------------------------------------------------------------


Init ==
    /\ bot \in {"fortress", "scalping"}
    /\ positions = [x \in {} |-> 0]
    /\ balance = StartBalance
    /\ now = 0
    /\ mode = "UNKNOWN"
    /\ pc = "idle"
    /\ todo = {}
    /\ scan_todo = {}
    /\ slots = 0
    /\ running = TRUE
    /\ fast_pc = "idle"
    /\ scan_pc = "idle"
    /\ rep_pc = "idle"
    /\ rep_todo = {}
    /\ rep_cur = NoCur
    /\ rep_len = 0
    /\ rep_left = 0
    /\ rep_pnl = 0
    /\ rep_hit = FALSE
    /\ ev = NoEv

Next ==
    \/ FTick
    \/ FManageStep
    \/ FScanTokyo
    \/ FScanGlobal
    \/ SFastBegin
    \/ SFastStep
    \/ SScanTick
    \/ SScanOpen
    \/ SRepBegin
    \/ SRepStep

Spec == Init /\ [][Next]_vars

-----------------------------------------------------------------------------
(* Properties, part 1: slots, priorities, profiles, sizing *)

MaxPositions == IF bot = "fortress" THEN MAX_OPEN_POSITIONS ELSE S_MAX_OPEN_POSITIONS

\* C1: the number of positions in the ledger never exceeds MAX_OPEN_POSITIONS,
\* in FortressBot and in ScalpingBot, whatever the number of qualifying
\* candidates of a scan tick.
C1_SlotsNeverExceeded == OpenCount(positions) <= MaxPositions

\* the elapsed time of a position exceeds the hard cap of the strategy that
\* created it (ScalpingBot: MAX_HOLD_SECONDS; scan_tokyo: 60 minutes)
OverCap(pos) ==
    \/ bot = "scalping" /\ DurationSec(pos, now) > MAX_HOLD_SECONDS
    \/ bot = "fortress" /\ pos.by = "scan_tokyo" /\ ScalpStale(pos, now)

\* what the supervisor of the running program decides for pos at this price
Decision(pos, price) ==
    IF bot = "scalping" THEN FastRules(pos, price, now)
    ELSE ManageOne(pos, price, now, mode)

AvailablePrices == (IF bot = "scalping" THEN SPrices ELSE FPrices) \ {0}

TimeLimitReasons == {<<"MAX TIME LIMIT">>, <<"TIME LIMIT (Scalp Stale)">>}

\* C2: for every open position beyond its hard cap and every available price,
\* the supervisor's decision is a full close with the time-limit reason,
\* whatever the stop, target, trailing or stagnation conditions are.
C2_TimeLimitFirst ==
    \A s \in DOMAIN positions : \A price \in AvailablePrices :
        OverCap(positions[s]) =>
            /\ Decision(positions[s], price).full
            /\ Decision(positions[s], price).calls \in TimeLimitReasons

\* C3: a position opened by scan_tokyo is managed by the scalp branch of
\* manage_positions, a position opened by scan_global by the trend branch.
C3_ProfileOfCreator ==
    \A s \in DOMAIN positions :
        /\ positions[s].by = "scan_tokyo" => Branch(positions[s], mode) = "scalp"
        /\ positions[s].by = "scan_global" => Branch(positions[s], mode) = "trend"

\* C4: while a position stays open, manage_positions takes the same branch for
\* it before and after every step, however self.mode changes.
C4_ProfileNeverChanges ==
    [][\A s \in DOMAIN positions \cap DOMAIN positions' :
          Branch(positions[s], mode) = Branch(positions'[s], mode')]_vars

\* a position opened under GLOBAL_TREND has just been inspected, and left open,
\* by a supervisor tick running in the TOKYO_SCALPER mode
C4_Witness ==
    /\ ev.kind = "manage" /\ ~ev.failed
    /\ ev.sym \in DOMAIN positions
    /\ positions[ev.sym].by = "scan_global"
    /\ mode = "TOKYO_SCALPER"
    /\ Branch(positions[ev.sym], mode) = "trend"

\* C5: the quote size passed to open_position by scan_tokyo and by scan_global
\* is at most the exposure cap times the balance at that moment.
C5_SizeWithinExposureCap ==
    ev.kind = "open" => ev.size * 100 <= balance * TOKYO_MAX_EXPOSURE_PCT

-----------------------------------------------------------------------------
(* Properties, part 2: account-level guards, failures, the close rules *)

\* the drawdown threshold of the circuit breaker, in percent (spec.md 4)
DRAWDOWN_LIMIT_PCT == 1

\* (equity - dailyStartBalance) / dailyStartBalance <= -threshold, with the
\* realized balance as equity
InDrawdown(bal) == (bal - StartBalance) * 100 <= -(DRAWDOWN_LIMIT_PCT * StartBalance)

\* C6: open_position is never called while the account is in drawdown
\* suspension: the balance at the moment of the call is above the threshold.
C6_NoOpenInDrawdown ==
    ev.kind = "open" => ~InDrawdown(balance)

\* C7: the supervisor loop never stops while the ledger holds an open position,
\* also after reporting_loop has reacted to the daily PnL threshold.
C7_ManagementNeverHalts ==
    ~(bot = "scalping" /\ fast_pc = "done" /\ DOMAIN positions # {})

\* C8: no loop terminates because a data or execution call raised during one
\* of its ticks, and no loop is stopped by the failure of another.
C8_NoLoopTerminatesOnFailure ==
    /\ fast_pc # "crashed"
    /\ scan_pc # "cancelled"
    /\ rep_pc # "cancelled"

FullCloseReasons ==
    {<<"STOP LOSS">>, <<"TAKE PROFIT (Full Base)">>, <<"TIME LIMIT (Scalp Stale)">>,
     <<"SCALP TP (+0.6%)">>, <<"SCALP SL (-0.4%)">>}

\* C9: for every open position and every available price the supervisor decides
\* at most one close_position call, and a full close leaves the position as it
\* was (no harvest, no stop adjustment); the snapshot of a tick never holds a
\* symbol that has left the ledger, and a supervisor step that fully closed a
\* symbol has removed it from the ledger and from the rest of the tick.
C9_OneClosePerTick ==
    /\ todo \subseteq DOMAIN positions
    /\ \A s \in DOMAIN positions : \A price \in AvailablePrices :
         LET d == Decision(positions[s], price)
         IN  /\ Len(d.calls) <= 1
             /\ d.full => /\ Len(d.calls) = 1
                          /\ [d.pos EXCEPT !.max_roi = positions[s].max_roi]
                                = positions[s]
    /\ ev.kind = "manage" =>
         /\ Len(ev.calls) <= 1
         /\ (ev.calls \in FullCloseReasons /\ ~ev.failed) =>
                (ev.sym \notin DOMAIN positions /\ ev.sym \notin todo)

\* a supervisor step has just closed a position on its stop, and the same tick
\* still has another position to inspect
C9_Witness ==
    /\ ev.kind = "manage" /\ ev.calls = <<"STOP LOSS">> /\ ~ev.failed
    /\ ev.sym \notin DOMAIN positions
    /\ pc = "manage" /\ todo # {}

StopAtEntryOrBetter(pos) ==
    IF pos.side = "LONG" THEN pos.sl >= pos.entry_price ELSE pos.sl <= pos.entry_price

\* C10: the harvester fires at most once per position; right after it fired
\* the amount is smaller than the original one and positive, partial_taken and
\* be_locked are set and the stop is at entry or better; in every state
\* partial_taken implies amount < original amount and be_locked implies a stop
\* at entry or better.
C10_HarvesterOnce ==
    /\ \A s \in DOMAIN positions :
         LET p == positions[s]
         IN  /\ p.harvests <= 1
             /\ p.partial_taken <=> p.harvests = 1
             /\ p.partial_taken => (p.amount < p.orig_amount /\ p.amount > 0
                                    /\ p.be_locked)
             /\ p.be_locked => StopAtEntryOrBetter(p)
    /\ (ev.kind = "manage" /\ ev.calls = <<"HARVESTER (50%)">> /\ ~ev.failed) =>
         /\ ev.sym \in DOMAIN positions
         /\ positions[ev.sym].harvests = 1
         /\ positions[ev.sym].partial_taken
         /\ positions[ev.sym].be_locked
         /\ positions[ev.sym].amount < positions[ev.sym].orig_amount
         /\ positions[ev.sym].amount > 0
         /\ StopAtEntryOrBetter(positions[ev.sym])

\* the harvester has just fired on a position, and the stop has been trailed
\* beyond the entry price in the same step
C10_Witness ==
    /\ ev.kind = "manage" /\ ev.calls = <<"HARVESTER (50%)">> /\ ~ev.failed
    /\ ev.sym \in DOMAIN positions
    /\ positions[ev.sym].partial_taken
    /\ positions[ev.sym].sl # positions[ev.sym].entry_price

-----------------------------------------------------------------------------
(* Properties, part 3: stop movement, rule order, rejected and failed calls *)

StopNotLoosened(before, after) ==
    IF before.side = "LONG" THEN after.sl >= before.sl ELSE after.sl <= before.sl

\* C11: once be_locked is set, every step leaves the stop of a position that
\* stays open where it was or moves it in the favorable direction: up for a
\* LONG, down for a SHORT.
C11_TrailingMonotonic ==
    [][\A s \in DOMAIN positions \cap DOMAIN positions' :
          positions[s].be_locked => StopNotLoosened(positions[s], positions'[s])]_vars

\* a locked position has just been inspected at a price whose trailing level
\* lies below (LONG) or above (SHORT) its stop, and was left open
C11_Witness ==
    /\ ev.kind = "manage" /\ ev.calls = <<>> /\ ~ev.failed
    /\ ev.sym \in DOMAIN positions
    /\ positions[ev.sym].be_locked
    /\ positions[ev.sym].sl # positions[ev.sym].entry_price
    /\ \E price \in FPrices \ {0} :
         /\ ~StopHit(positions[ev.sym], price)
         /\ ~StopNotLoosened(positions[ev.sym], TrailAlways(positions[ev.sym], price))

\* duration_sec > 600 and roi < 2.0
StagnationDue(pos, price) == DurationSec(pos, now) > 600 /\ Roi(pos, price) < 2

\* C12: in fast_loop, for every open position and every available price, a
\* position whose stop-loss and stagnation conditions are both true is closed
\* with the stop-loss reason, and the stagnation reason is only given when
\* neither the hard stop nor the hard target condition is true.
C12_StopLossBeforeStagnation ==
    bot = "scalping" =>
        \A s \in DOMAIN positions : \A price \in SPrices \ {0} :
            LET pos == positions[s]
                d == FastRules(pos, price, now)
            IN  /\ (Roi(pos, price) <= STOP_LOSS_ROI /\ StagnationDue(pos, price))
                       => (d.full /\ d.calls = <<"STOP LOSS">>)
                /\ d.calls = <<"STAGNATION">>
                       => (Roi(pos, price) > STOP_LOSS_ROI
                           /\ Roi(pos, price) < TAKE_PROFIT_ROI)

\* fast_loop is about to inspect a position older than 600 seconds, and one of
\* the prices it can see makes the stop-loss and the stagnation conditions true
C12_Witness ==
    /\ bot = "scalping" /\ fast_pc = "run" /\ todo # {}
    /\ \E price \in SPrices \ {0} :
         /\ Roi(positions[MinOf(todo)], price) <= STOP_LOSS_ROI
         /\ StagnationDue(positions[MinOf(todo)], price)

\* the candidates ranked after sym
Remaining(sym) == {x \in Symbols : x > sym}

ScanGoesOn(sym) ==
    Remaining(sym) # {} =>
        (pc \in {"scan_tokyo", "scan_global"} /\ scan_todo = Remaining(sym))

\* C13: a signal with a stop distance of zero opens no position and does not
\* end the scan: the candidates ranked after it are still to be evaluated in
\* the same tick, in scan_tokyo and in scan_global.
C13_ZeroStopSkipsCandidate ==
    ev.kind = "zero_stop" =>
        (ev.sym \notin DOMAIN positions /\ ScanGoesOn(ev.sym))

\* C14: a step whose open_position or close_position call failed leaves the
\* ledger as it was (no entry added or removed, no field of any position
\* changed) and ends the tick, so that the position is evaluated again, and
\* the harvest attempted again, by the next tick.
C14_FailedCallLeavesLedger ==
    [][(ev'.kind \in {"open", "manage"} /\ ev'.failed) =>
          (positions' = positions /\ pc' = "idle")]_vars

\* the partial close of the harvester has just failed on a position that is
\* still unharvested in the ledger
C14_Witness ==
    /\ ev.kind = "manage" /\ ev.failed /\ ev.calls = <<"HARVESTER (50%)">>
    /\ ev.sym \in DOMAIN positions
    /\ ~positions[ev.sym].partial_taken
    /\ ~positions[ev.sym].be_locked
    /\ positions[ev.sym].amount = positions[ev.sym].orig_amount

-----------------------------------------------------------------------------
(* Properties, part 4: mode, levels, shutdown, candidates *)

\* what holds of the mode at every point of a FortressBot tick
ModeFitsTick ==
    /\ pc \in {"manage", "scan_tokyo", "scan_global"} => mode # "UNKNOWN"
    /\ pc = "scan_tokyo" => mode = "TOKYO_SCALPER"
    /\ pc = "scan_global" => mode = "GLOBAL_TREND"
    /\ ev.kind = "tick" =>
         /\ ev.hour \in 0..8 => (mode = "TOKYO_SCALPER" /\ pc # "scan_global")
         /\ ev.hour \in 9..23 => (mode = "GLOBAL_TREND" /\ pc # "scan_tokyo")
    /\ ev.kind = "open" =>
         /\ mode # "UNKNOWN"
         /\ ~ev.failed =>
              positions[ev.sym].by = (IF mode = "TOKYO_SCALPER" THEN "scan_tokyo"
                                      ELSE "scan_global")
    /\ DOMAIN positions # {} => mode # "UNKNOWN"

\* C15: in FortressBot the mode is set from the UTC hour at the head of the
\* tick (hours 0..8: TOKYO_SCALPER, hours 9..23: GLOBAL_TREND), it does not
\* change during the tick, the scanner that runs and every open made are those
\* of that mode, and nothing is managed, scanned or opened in mode UNKNOWN.
C15_ModeBeforeScan ==
    [][bot = "fortress" =>
          (ModeFitsTick' /\ (ev'.kind # "tick" => mode' = mode))]_vars

\* a tick at 09:00 UTC has set the mode and gone on to scan_global
C15_Witness ==
    /\ bot = "fortress" /\ ev.kind = "tick" /\ ev.hour = 9
    /\ mode = "GLOBAL_TREND" /\ pc = "scan_global"

TargetOnCorrectSide(pos) ==
    IF pos.side = "LONG" THEN pos.entry_price < pos.tp ELSE pos.tp < pos.entry_price

StopOnCorrectSide(pos) ==
    IF pos.side = "LONG" THEN pos.sl < pos.entry_price ELSE pos.entry_price < pos.sl

\* C16 (as stated): in every reachable state every open position has its stop
\* and its target strictly on the correct side of its entry price: sl < entry <
\* tp for a LONG, tp < entry < sl for a SHORT, also after harvest, breakeven
\* lock and trailing.
C16_LevelsStrictlyAroundEntry ==
    \A s \in DOMAIN positions :
        TargetOnCorrectSide(positions[s]) /\ StopOnCorrectSide(positions[s])

\* C16 (amended): the target of every open position is strictly on the correct
\* side of its entry price; the stop is strictly on the correct side as long
\* as the position is not breakeven-locked, and from the lock on it is at the
\* entry price or beyond it in the favorable direction.
C16_LevelsAroundEntryUntilLock ==
    \A s \in DOMAIN positions :
        /\ TargetOnCorrectSide(positions[s])
        /\ ~positions[s].be_locked => StopOnCorrectSide(positions[s])
        /\ positions[s].be_locked => StopAtEntryOrBetter(positions[s])

\* FortressBot holds a locked position whose stop has left the loss side of
\* its entry price, next to an unlocked position opened by scan_tokyo
C16_Witness ==
    /\ bot = "fortress"
    /\ \E s, u \in DOMAIN positions :
         /\ positions[s].be_locked /\ ~StopOnCorrectSide(positions[s])
         /\ ~positions[u].be_locked /\ positions[u].by = "scan_tokyo"

-----------------------------------------------------------------------------
(* ScalpingBot alone, with the scheduling of the event loop: a coroutine whose
   await has completed is resumed, every sleep ends, and every call to
   MarketData returns or raises. *)

SInit == Init /\ bot = "scalping"

SNext ==
    \/ SFastBegin
    \/ SFastStep
    \/ SScanTick
    \/ SScanOpen
    \/ SRepBegin
    \/ SRepStep

SpecS ==
    /\ SInit /\ [][SNext]_vars
    /\ WF_vars(SFastBegin \/ SFastStep)
    /\ WF_vars(SScanTick \/ SScanOpen)
    /\ WF_vars(SRepBegin \/ SRepStep)

\* every loop has left its while loop, or was ended by an exception
AllLoopsStopped ==
    /\ fast_pc \in {"done", "crashed"}
    /\ scan_pc \in {"done", "cancelled"}
    /\ rep_pc \in {"done", "cancelled"}

\* C17: once self.running is False, fast_loop, scan_loop and reporting_loop
\* all eventually stop, and a loop that is at its loop head when the flag is
\* down starts no new tick: it stays there, exits, or is cancelled there.
C17_LoopsStopAfterShutdown ==
    /\ (~running) ~> AllLoopsStopped
    /\ [][~running =>
            /\ fast_pc = "idle" => fast_pc' \in {"idle", "done"}
            /\ scan_pc = "idle" => scan_pc' \in {"idle", "done", "cancelled"}
            /\ rep_pc' = "done"]_vars

\* the flag is down and each of the three loops has exited at its loop head
C17_Witness ==
    /\ ~running
    /\ fast_pc = "done" /\ scan_pc = "done" /\ rep_pc = "done"

\* C18: a candidate whose history fetch or analysis failed is the only one
\* skipped: the candidates ranked after it are still to be evaluated in the
\* same scan tick.
C18_CandidateFailureSkipsOnlyIt ==
    ev.kind = "error" => ScanGoesOn(ev.sym)

\* C19: open_position is never called for a symbol that is in the ledger at
\* the moment of the call: an open of FortressBot is for a symbol absent from
\* the ledger before the step, and in ScalpingBot the candidate the execution
\* loop opens next is absent from the ledger whatever the fast monitor and the
\* reporting loop did since the pending list was built.
C19_NoOpenOnHeldSymbol ==
    [][/\ ev'.kind = "open" => ev'.sym \notin DOMAIN positions
       /\ (bot = "scalping" /\ scan_pc = "open" /\ scan_todo # {})
             => MinOf(scan_todo) \notin DOMAIN positions
       /\ \A s \in DOMAIN positions \cap DOMAIN positions' :
             positions'[s].entry_time = positions[s].entry_time]_vars

\* the execution loop has opened one candidate and holds another while the
\* fast monitor and the reporting loop are in the middle of their iterations
C19_Witness ==
    /\ bot = "scalping" /\ scan_pc = "open" /\ scan_todo # {}
    /\ DOMAIN positions # {}
    /\ fast_pc = "run" /\ rep_pc \in {"pass1", "pass2"}

\* C20: the max_roi of an open ScalpingBot position never decreases from one
\* step to the next, and the position a fast_loop iteration with a valid price
\* leaves behind has a max_roi of at least the roi of that iteration and of at
\* least the max_roi it had before.
C20_MaxRoiMonotonic ==
    [][bot = "scalping" =>
         /\ \A s \in DOMAIN positions \cap DOMAIN positions' :
               positions'[s].max_roi >= positions[s].max_roi
         /\ fast_pc = "run" =>
               \A s \in todo : \A price \in SPrices \ {0} :
                  LET after == FastRules(positions[s], price, now).pos
                  IN  /\ after.max_roi >= Roi(positions[s], price)
                      /\ after.max_roi >= positions[s].max_roi]_vars

\* a position whose max_roi was raised by an earlier tick is about to be
\* evaluated again
C20_Witness ==
    /\ bot = "scalping" /\ fast_pc = "run"
    /\ \E s \in todo : s \in DOMAIN positions /\ positions[s].max_roi > 0

-----------------------------------------------------------------------------
(* FortressBot alone, under the assumptions of a supervisor that keeps
   ticking: start() never stalls, and for every symbol the price feed returns
   a non-zero price and the execution calls succeed again and again. *)

FInit == Init /\ bot = "fortress"

FNext ==
    \/ FTick
    \/ FManageStep
    \/ FScanTokyo
    \/ FScanGlobal

\* an iteration of manage_positions on symbol s in which get_current_price
\* returned a non-zero price and close_position, if called, succeeded
FManageGood(s) ==
    /\ FManageStep
    /\ todo # {} /\ s = MinOf(todo)
    /\ \E price \in FPrices \ {0} :
         LET o == FManageResult(s, price, "ok")
         IN  positions' = o.positions /\ balance' = o.balance /\ ev' = o.ev

SpecF ==
    /\ FInit /\ [][FNext]_vars
    /\ WF_vars(FNext)
    /\ \A s \in Symbols : SF_vars(FManageGood(s))

\* C21: every opened position is eventually removed from the ledger, whatever
\* the price path, when the supervisor keeps ticking, the price feed keeps
\* returning non-zero prices and close_position succeeds.
C21_EveryPositionCloses ==
    \A s \in Symbols : (s \in DOMAIN positions) ~> (s \notin DOMAIN positions)

\* C22: while a pass of the reporting loop over the ledger is under way, no
\* step of another loop inserts a position into the ledger or removes one
\* from it.
C22_ReportPassUndisturbed ==
    [][(bot = "scalping" /\ rep_pc \in {"pass1", "pass2"})
          => DOMAIN positions' = DOMAIN positions]_vars

-----------------------------------------------------------------------------
(* FortressBot alone, assuming only that start() keeps ticking: any call to
   MarketData may fail at any tick, for as long as it likes. *)

SpecFW == FInit /\ [][FNext]_vars /\ WF_vars(FNext)

\* manage_positions has begun its iteration on symbol s
Inspected(s) == ev.kind = "manage" /\ ev.sym = s

\* C23: a symbol whose price or close call keeps raising does not starve the
\* others: every open position is eventually reached by the supervisor (or
\* has left the ledger), whatever fails for the other symbols.
C23_NoStarvation ==
    \A s \in Symbols : (s \in DOMAIN positions) ~> (Inspected(s) \/ s \notin DOMAIN positions)

-----------------------------------------------------------------------------
(* Properties, part 5 *)

\* the iteration neither changes the ledger or the balance, nor calls
\* close_position, nor leaves the loop
LeavesAllAlone(o) ==
    /\ o.valid /\ ~o.abort
    /\ o.positions = positions /\ o.balance = balance
    /\ o.ev.calls = <<>>

\* C24: when get_current_price returns 0 for the symbol the supervisor is
\* about to inspect, the iteration leaves the position unchanged and closes
\* nothing, whatever rule would apply at a valid price (the time limit
\* included), and the loop goes on with the other positions.
C24_ZeroPriceSkipsPosition ==
    /\ (bot = "fortress" /\ pc = "manage" /\ todo # {})
          => LeavesAllAlone(FManageResult(MinOf(todo), 0, "ok"))
    /\ (bot = "scalping" /\ fast_pc = "run" /\ todo # {})
          => LeavesAllAlone(SFastResult(MinOf(todo), 0, "ok"))

\* fast_loop is about to inspect a position that is past MAX_HOLD_SECONDS and
\* whose max_roi was never raised: every earlier tick got a price of 0 for it
C24_Witness ==
    /\ bot = "scalping" /\ fast_pc = "run" /\ todo # {}
    /\ LET pos == positions[MinOf(todo)]
       IN  DurationSec(pos, now) > MAX_HOLD_SECONDS /\ pos.max_roi = 0

====
